---------------------------- MODULE Spec2Model ----------------------------
(***************************************************************************)
(* The test-block of wp-block-template: the attribute set of one block,    *)
(* the editor component Edit (src/edit.tsx) with its update callbacks and  *)
(* live preview, and the server template render.php (src/unnamed/part_000).*)
(*                                                                         *)
(* Encoding.  A value that may be missing (a JavaScript undefined, an      *)
(* absent PHP array key) is the empty tuple Undef; a value v that is there *)
(* is <<v>>.  Numbers are integers counting tenths of a rem (0.1 is 1,     *)
(* 3 is 30), so that the ranges [0.1, 5] and [0.1, 20] are integer ranges. *)
(***************************************************************************)
EXTENDS Integers, Sequences, FiniteSets, TLC

VARIABLES
    request,      \* the attribute set the host supplies ($attributes / saved attributes)
    attributes,   \* props.attributes of Edit: the editor's current attribute set
    preview,      \* what Edit last returned for the preview <section>
    markup,       \* what render.php last emitted
    edits         \* number of setAttributes calls made in this editing session

vars == <<request, attributes, preview, markup, edits>>

-----------------------------------------------------------------------------
(* Optional values *)

Undef == <<>>

Some(v) == <<v>>

Opt(S) == {Undef} \cup {Some(v) : v \in S}

-----------------------------------------------------------------------------
(* Bounds of the model *)

\* setAttributes calls explored per editing session
MaxEdits == 3

-----------------------------------------------------------------------------
(* The schema: BlockAttributes, the control ranges, the defaults *)

SchemaFields ==
    {"title", "showTitle", "titleTextColor", "titleFontSize", "content",
     "contentTextColor", "contentFontSize", "backgroundColor", "padding",
     "alignment"}

Sides == {"top", "bottom", "left", "right"}

AlignmentValues == {"left", "center", "right"}

\* min / max of the RangeControls, in tenths of a rem
TitleFontSizeMin == 1
TitleFontSizeMax == 50
ContentFontSizeMin == 1
ContentFontSizeMax == 200
PaddingMin == 0
PaddingMax == 100

\* the fallbacks of render.php, in tenths of a rem
PhpTitleSizeDefault == 30
PhpContentSizeDefault == 10
PhpPaddingDefault == 20

PhpPaddingRecord == [s \in Sides |-> Some(PhpPaddingDefault)]

PhpDefaults ==
    [title            |-> Some("Block Title"),
     showTitle        |-> Some(TRUE),
     titleTextColor   |-> Some("#1a202c"),
     titleFontSize    |-> Some(PhpTitleSizeDefault),
     content          |-> Some("Add your content here..."),
     contentColor     |-> Some("#4a5568"),
     contentFontSize  |-> Some(PhpContentSizeDefault),
     backgroundColor  |-> Some("#ffffff"),
     padding          |-> Some(PhpPaddingRecord),
     alignment        |-> Some("center")]

\* the options of the "Content Text Color" SelectControl
SelectOptions == {"#000000", "#ffffff", "#808080"}

\* block.json (not among the sources): the defaults the editor starts from.
\* They are the schema defaults; the default of contentTextColor is known only
\* to be a gray that may differ from the server's fallback.
ContentTextColorDefaults == {"#4a5568", "#808080"}

BlockJsonDefaults(c) ==
    [title            |-> Some("Block Title"),
     showTitle        |-> Some(TRUE),
     titleTextColor   |-> Some("#1a202c"),
     titleFontSize    |-> Some(30),
     content          |-> Some("Add your content here..."),
     contentTextColor |-> Some(c),
     contentFontSize  |-> Some(10),
     backgroundColor  |-> Some("#ffffff"),
     padding          |-> Some([s \in Sides |-> Some(20)]),
     alignment        |-> Some("center")]


-----------------------------------------------------------------------------
(* Language primitives used by both files *)

\* x ?? d  (TypeScript and PHP): d when x is missing, x otherwise
Coalesce(x, d) == IF x = Undef THEN d ELSE x

\* $array[$key] ?? ...: the lookup of a key that may not be in the array
Lookup(r, k) == IF k \in DOMAIN r THEN r[k] ELSE Undef

\* { ...obj, [k]: v }: a copy of obj with key k set to v
Spread(obj, k, v) == [obj EXCEPT ![k] = v]

\* the decimal text of a number given in tenths: 30 is "3", 1 is "0.1", -50 is "-5"
DecimalStr(n) ==
    LET a == IF n < 0 THEN 0 - n ELSE n
    IN  (IF n < 0 THEN "-" ELSE "")
        \o ToString(a \div 10)
        \o (IF a % 10 = 0 THEN "" ELSE "." \o ToString(a % 10))

\* `${x}` in a template literal: a missing value prints as "undefined"
JsTemplate(x) == IF x = Undef THEN "undefined" ELSE DecimalStr(x[1])

\* echo of a PHP number; a missing array key evaluates to null, which prints as ""
PhpNumber(x) == IF x = Undef THEN "" ELSE DecimalStr(x[1])

\* esc_attr / esc_html replace the HTML special characters by entities; of the
\* texts of this model only "A&B" holds one
Entities == [s \in {"A&B"} |-> "A&amp;B"]

EscAttr(s) == IF s \in DOMAIN Entities THEN Entities[s] ELSE s

EscHtml(s) == IF s \in DOMAIN Entities THEN Entities[s] ELSE s

\* a JavaScript value used as a condition
Truthy(x) == x # Undef /\ x[1] = TRUE

-----------------------------------------------------------------------------
(* Edit: the preview <section> (src/edit.tsx, 204-235) *)

\* a style property whose value is undefined is left out by React: Undef
EditSectionStyle(a) ==
    LET padding == a.padding[1]
    IN  [padding         |-> Some(JsTemplate(padding.top) \o "rem "
                                  \o JsTemplate(padding.right) \o "rem "
                                  \o JsTemplate(padding.bottom) \o "rem "
                                  \o JsTemplate(padding.left) \o "rem"),
         alignItems      |-> a.alignment,
         backgroundColor |-> a.backgroundColor]

EditTitleElement(a) ==
    IF Truthy(a.showTitle)
    THEN Some([color    |-> a.titleTextColor,
               fontSize |-> Some(JsTemplate(a.titleFontSize) \o "rem"),
               text     |-> a.title])
    ELSE Undef

EditContentElement(a) ==
    [color    |-> a.contentTextColor,
     fontSize |-> Some(JsTemplate(a.contentFontSize) \o "rem"),
     text     |-> a.content]

EditPreview(a) ==
    [container |-> EditSectionStyle(a),
     title     |-> EditTitleElement(a),
     content   |-> EditContentElement(a)]

-----------------------------------------------------------------------------
(* render.php (src/unnamed/part_000, 15-37) *)

PhpVariables(r) ==
    [title            |-> Coalesce(Lookup(r, "title"), PhpDefaults.title),
     show_title       |-> Coalesce(Lookup(r, "showTitle"), PhpDefaults.showTitle),
     title_color      |-> Coalesce(Lookup(r, "titleTextColor"), PhpDefaults.titleTextColor),
     title_size       |-> Coalesce(Lookup(r, "titleFontSize"), PhpDefaults.titleFontSize),
     content          |-> Coalesce(Lookup(r, "content"), PhpDefaults.content),
     content_color    |-> Coalesce(Lookup(r, "contentColor"), PhpDefaults.contentColor),
     content_size     |-> Coalesce(Lookup(r, "contentFontSize"), PhpDefaults.contentFontSize),
     background_color |-> Coalesce(Lookup(r, "backgroundColor"), PhpDefaults.backgroundColor),
     padding          |-> Coalesce(Lookup(r, "padding"), PhpDefaults.padding),
     alignment        |-> Coalesce(Lookup(r, "alignment"), PhpDefaults.alignment)]

\* a template that writes the sides in the order top, left, bottom, right
PhpSectionStyleSidesSwapped(v) ==
    LET padding == v.padding[1]
    IN  [padding         |-> Some(PhpNumber(Lookup(padding, "top")) \o "rem "
                                  \o PhpNumber(Lookup(padding, "left")) \o "rem "
                                  \o PhpNumber(Lookup(padding, "bottom")) \o "rem "
                                  \o PhpNumber(Lookup(padding, "right")) \o "rem"),
         alignItems      |-> Some(EscAttr(v.alignment[1])),
         backgroundColor |-> Some(EscAttr(v.background_color[1]))]

PhpSectionStyle(v) ==
    LET padding == v.padding[1]
    IN  [padding         |-> Some(PhpNumber(Lookup(padding, "top")) \o "rem "
                                  \o PhpNumber(Lookup(padding, "right")) \o "rem "
                                  \o PhpNumber(Lookup(padding, "bottom")) \o "rem "
                                  \o PhpNumber(Lookup(padding, "left")) \o "rem"),
         alignItems      |-> Some(EscAttr(v.alignment[1])),
         backgroundColor |-> Some(EscAttr(v.background_color[1]))]

\* the <h2> is emitted whatever $show_title holds
PhpTitleElement(v) ==
    Some([color    |-> Some(EscAttr(v.title_color[1])),
          fontSize |-> Some(PhpNumber(v.title_size) \o "rem"),
          text     |-> Some(EscHtml(v.title[1]))])

PhpContentElement(v) ==
    [color    |-> Some(EscAttr(v.content_color[1])),
     fontSize |-> Some(PhpNumber(v.content_size) \o "rem"),
     text     |-> Some(EscHtml(v.content[1]))]

RenderPhp(r) ==
    LET v == PhpVariables(r)
    IN  [container |-> PhpSectionStyle(v),
         title     |-> PhpTitleElement(v),
         content   |-> PhpContentElement(v)]

-----------------------------------------------------------------------------
(* The host: it hands Edit the supplied attribute set with every absent     *)
(* top-level attribute replaced by its block.json default                   *)

Load(r, c) == [f \in SchemaFields |-> Coalesce(r[f], BlockJsonDefaults(c)[f])]

\* a freshly inserted block: nothing supplied
EmptyRequest == [f \in SchemaFields |-> Undef]

-----------------------------------------------------------------------------
(* What the controls of Edit can report to their onChange callbacks *)

\* a RangeControl reports a number within [min, max], or undefined when cleared
TitleFontSizeReports == Opt({TitleFontSizeMin, 20, TitleFontSizeMax})

ContentFontSizeReports == Opt({ContentFontSizeMin, 20, ContentFontSizeMax})

PaddingReports == Opt({PaddingMin, 40, PaddingMax})

\* a colour setting reports the picked colour, or undefined when cleared
ColorReports == Opt({"#ff0000"})

\* a RichText reports the edited text
TextReports == {"Hi", "World"}

-----------------------------------------------------------------------------
(* Edit: the update callbacks (src/edit.tsx, 106-229) *)

\* the session is explored up to MaxEdits updates
CanEdit == edits < MaxEdits

\* an update that, when it hides the title, also empties the title text
SetAttributesClearingTitle(f, v) ==
    /\ attributes' =
           IF f = "showTitle" /\ v = Some(FALSE)
           THEN Spread(Spread(attributes, f, v), "title", Some(""))
           ELSE Spread(attributes, f, v)
    /\ preview' = Some(EditPreview(attributes'))
    /\ edits' = edits + 1
    /\ UNCHANGED <<request, markup>>

\* setAttributes(partial), followed by the re-render of Edit
SetAttributes(f, v) ==
    /\ attributes' = Spread(attributes, f, v)
    /\ preview' = Some(EditPreview(attributes'))
    /\ edits' = edits + 1
    /\ UNCHANGED <<request, markup>>

\* a callback that replaces the record instead of merging into it:
\* { side: value ?? 0 }
PaddingUpdateReplacing(padding, side, value) ==
    [s \in Sides |-> IF s = side THEN Coalesce(value, Some(0)) ELSE Undef]

\* a callback that falls back to the schema default: { ...padding, side: value ?? 2 }
PaddingUpdateDefaulting(padding, side, value) ==
    Spread(padding, side, Coalesce(value, Some(PhpPaddingDefault)))

\* { ...padding, side: value ?? 0 }
PaddingUpdate(padding, side, value) ==
    Spread(padding, side, Coalesce(value, Some(0)))

\* the onChange of the padding RangeControl of one side
SetPaddingSide(side, value) ==
    SetAttributes("padding", Some(PaddingUpdate(attributes.padding[1], side, value)))

ToggleShowTitle ==
    /\ CanEdit
    /\ \E value \in BOOLEAN : SetAttributes("showTitle", Some(value))

\* the control is rendered only while showTitle holds
SetTitleFontSize ==
    /\ CanEdit
    /\ Truthy(attributes.showTitle)
    /\ \E value \in TitleFontSizeReports : SetAttributes("titleFontSize", value)

SetContentFontSize ==
    /\ CanEdit
    /\ \E value \in ContentFontSizeReports : SetAttributes("contentFontSize", value)

SelectContentTextColor ==
    /\ CanEdit
    /\ \E value \in SelectOptions : SetAttributes("contentTextColor", Some(value))

SetPaddingTop ==
    /\ CanEdit
    /\ \E value \in PaddingReports : SetPaddingSide("top", value)

SetPaddingBottom ==
    /\ CanEdit
    /\ \E value \in PaddingReports : SetPaddingSide("bottom", value)

SetPaddingLeft ==
    /\ CanEdit
    /\ \E value \in PaddingReports : SetPaddingSide("left", value)

SetPaddingRight ==
    /\ CanEdit
    /\ \E value \in PaddingReports : SetPaddingSide("right", value)

PickBackgroundColor ==
    /\ CanEdit
    /\ \E value \in ColorReports : SetAttributes("backgroundColor", value)

PickTitleColor ==
    /\ CanEdit
    /\ \E value \in ColorReports : SetAttributes("titleTextColor", value)

PickContentColor ==
    /\ CanEdit
    /\ \E value \in ColorReports : SetAttributes("contentTextColor", value)

\* the title RichText is rendered only while showTitle holds
EditTitle ==
    /\ CanEdit
    /\ Truthy(attributes.showTitle)
    /\ \E value \in TextReports : SetAttributes("title", Some(value))

EditContent ==
    /\ CanEdit
    /\ \E value \in TextReports : SetAttributes("content", Some(value))

-----------------------------------------------------------------------------
(* The server renders the supplied attribute set *)

RenderStatic ==
    /\ markup = Undef
    /\ markup' = Some(RenderPhp(request))
    /\ UNCHANGED <<request, attributes, preview, edits>>

-----------------------------------------------------------------------------
(* Spec: an editing session that starts from a freshly inserted block *)

Init ==
    /\ request = EmptyRequest
    /\ \E c \in ContentTextColorDefaults : attributes = Load(request, c)
    /\ preview = Some(EditPreview(attributes))
    /\ markup = Undef
    /\ edits = 0

Next ==
    \/ ToggleShowTitle
    \/ SetTitleFontSize
    \/ SetContentFontSize
    \/ SelectContentTextColor
    \/ SetPaddingTop
    \/ SetPaddingBottom
    \/ SetPaddingLeft
    \/ SetPaddingRight
    \/ PickBackgroundColor
    \/ PickTitleColor
    \/ PickContentColor
    \/ EditTitle
    \/ EditContent

Spec == Init /\ [][Next]_vars

-----------------------------------------------------------------------------
(* SessionSpec: the editing session, with the server rendering the block    *)
(* at some point of it                                                      *)

NextSession == Next \/ RenderStatic

SessionSpec == Init /\ [][NextSession]_vars

-----------------------------------------------------------------------------
(* RenderSpec: the host supplies one attribute set, partial or not, in or   *)
(* out of range, to both render paths                                       *)

PaddingRequests ==
    [top : Opt({10, -50}), bottom : Opt({10, 20}), left : Opt({10, 30}), right : Opt({10})]

Requests ==
    [title            : Opt({"A&B"}),
     showTitle        : Opt(BOOLEAN),
     titleTextColor   : Opt({"#ff0000"}),
     titleFontSize    : Opt({20, 9990}),
     content          : Opt({"World"}),
     contentTextColor : Opt({"#000000"}),
     contentFontSize  : Opt({10}),
     backgroundColor  : Opt({"#fff"}),
     padding          : Opt(PaddingRequests),
     alignment        : Opt({"left", "justify"})]

InitRender ==
    /\ request \in Requests
    /\ \E c \in ContentTextColorDefaults : attributes = Load(request, c)
    /\ preview = Some(EditPreview(attributes))
    /\ markup = Undef
    /\ edits = 0

NextRender == RenderStatic

RenderSpec == InitRender /\ [][NextRender]_vars

-----------------------------------------------------------------------------
(* Properties *)

\* what the schema says a supplied field resolves to when it is absent
Resolved(r, f, d) == IF r[f] = Undef THEN d ELSE r[f][1]

\* the structure and the computed styles of a rendering, its texts left out
Styles(out) ==
    [container |-> out.container,
     title     |-> IF out.title = Undef
                   THEN Undef
                   ELSE Some([color    |-> out.title[1].color,
                              fontSize |-> out.title[1].fontSize]),
     content   |-> [color    |-> out.content.color,
                    fontSize |-> out.content.fontSize]]

\* the text of a size, written out for the sizes of this model
RemText ==
    [n \in {-50, 0, 1, 10, 20, 30, 40, 50, 100, 200, 9990} |->
        CASE n = -50  -> "-5rem"
          [] n = 0    -> "0rem"
          [] n = 1    -> "0.1rem"
          [] n = 10   -> "1rem"
          [] n = 20   -> "2rem"
          [] n = 30   -> "3rem"
          [] n = 40   -> "4rem"
          [] n = 50   -> "5rem"
          [] n = 100  -> "10rem"
          [] n = 200  -> "20rem"
          [] n = 9990 -> "999rem"]

\* C1: the static output holds a title element if and only if showTitle is
\* true, and a title element that is there carries color = titleTextColor and
\* font-size = titleFontSize followed by "rem".
C1_TitleIffShowTitle ==
    markup # Undef =>
        LET show  == Resolved(request, "showTitle", TRUE)
            color == Resolved(request, "titleTextColor", "#1a202c")
            size  == Resolved(request, "titleFontSize", 30)
        IN  /\ (markup[1].title # Undef) <=> show
            /\ show => /\ markup[1].title[1].color = Some(color)
                       /\ markup[1].title[1].fontSize = Some(RemText[size])

\* C2: in every state of an editing session, the static render of the
\* current attribute set and the preview have the same elements and the same
\* styles for the container, the title and the content.
C2_PreviewMatchesStatic ==
    Styles(preview[1]) = Styles(RenderPhp(attributes))

\* C3: the static render resolves every absent field to its schema default
\* and uses every supplied field, contentTextColor included, with the value
\* supplied.
C3_DefaultsAndSuppliedValues ==
    markup # Undef =>
        /\ markup[1].title[1].text =
               Some(EscHtml(Resolved(request, "title", "Block Title")))
        /\ markup[1].title[1].fontSize =
               Some(RemText[Resolved(request, "titleFontSize", 30)])
        /\ markup[1].content.fontSize =
               Some(RemText[Resolved(request, "contentFontSize", 10)])
        /\ markup[1].container.backgroundColor =
               Some(Resolved(request, "backgroundColor", "#ffffff"))
        /\ markup[1].container.alignItems =
               Some(Resolved(request, "alignment", "center"))
        /\ request.padding = Undef =>
               markup[1].container.padding = Some("2rem 2rem 2rem 2rem")
        /\ request.titleTextColor # Undef =>
               markup[1].title[1].color = request.titleTextColor
        /\ request.content # Undef =>
               markup[1].content.text = request.content
        /\ request.contentTextColor # Undef =>
               markup[1].content.color = request.contentTextColor

-----------------------------------------------------------------------------

Complete(padding) == DOMAIN padding = Sides /\ \A s \in Sides : padding[s] # Undef

\* "<top>rem <right>rem <bottom>rem <left>rem" of a complete padding record
PaddingText(padding) ==
    RemText[padding.top[1]] \o " " \o RemText[padding.right[1]] \o " "
        \o RemText[padding.bottom[1]] \o " " \o RemText[padding.left[1]]

Clamp(n, lo, hi) == IF n < lo THEN lo ELSE IF n > hi THEN hi ELSE n

\* C4: the update of one padding side gives that side the reported value and
\* leaves the other three sides as they were, and padding is a complete
\* four-sided record in every state of an editing session.
C4_PaddingMerge ==
    /\ [](attributes.padding # Undef /\ Complete(attributes.padding[1]))
    /\ [][\A side \in Sides : \A value \in PaddingReports :
            SetPaddingSide(side, value) =>
                /\ value # Undef => attributes'.padding[1][side] = value
                /\ \A s \in Sides \ {side} :
                       attributes'.padding[1][s] = attributes.padding[1][s]]_vars

\* from {top:2, bottom:2, left:2, right:2}, top set to 4
C4_Witness ==
    /\ edits = 1
    /\ attributes.padding[1] =
           [top |-> Some(40), bottom |-> Some(20), left |-> Some(20), right |-> Some(20)]

\* C5: a numeric field is never rendered out of its range: the static output
\* shows titleFontSize clamped to [0.1, 5] and each padding side clamped to
\* [0, 10].
C5_RenderedWithinRange ==
    markup # Undef =>
        /\ markup[1].title[1].fontSize =
               Some(RemText[Clamp(Resolved(request, "titleFontSize", 30),
                                  TitleFontSizeMin, TitleFontSizeMax)])
        /\ (request.padding # Undef /\ Complete(request.padding[1])) =>
               markup[1].container.padding =
                   Some(PaddingText([s \in Sides |->
                       Some(Clamp(request.padding[1][s][1], PaddingMin, PaddingMax))]))

\* C6: in every state of an editing session no field of the attribute set is
\* undefined.
C6_NoFieldUndefined ==
    /\ \A f \in SchemaFields : attributes[f] # Undef
    /\ Complete(attributes.padding[1])

\* C7: the static render of a padding record that is there but lacks sides
\* fills each missing side from the default 2 and keeps the supplied sides.
C7_PartialPaddingFilled ==
    (markup # Undef /\ request.padding # Undef) =>
        markup[1].container.padding =
            Some(PaddingText([s \in Sides |->
                Coalesce(request.padding[1][s], Some(20))]))

\* C8: neither render path shows an alignment outside {left, center, right}.
C8_AlignmentInEnum ==
    markup # Undef =>
        /\ markup[1].container.alignItems[1] \in AlignmentValues
        /\ preview[1].container.alignItems # Undef
        /\ preview[1].container.alignItems[1] \in AlignmentValues

\* the legal values of each field, as far as this model draws them
LegalValues ==
    [f \in SchemaFields \ {"padding"} |->
        CASE f = "title"            -> TextReports
          [] f = "showTitle"        -> BOOLEAN
          [] f = "titleTextColor"   -> {"#ff0000"}
          [] f = "titleFontSize"    -> {TitleFontSizeMin, 20, TitleFontSizeMax}
          [] f = "content"          -> TextReports
          [] f = "contentTextColor" -> SelectOptions \cup {"#ff0000"}
          [] f = "contentFontSize"  -> {ContentFontSizeMin, 20, ContentFontSizeMax}
          [] f = "backgroundColor"  -> {"#ff0000"}
          [] f = "alignment"        -> AlignmentValues]

\* C9: while the controls are shown, the editing surface offers for every
\* schema field, and for each padding side, an update to each legal value.
C9_EveryFieldHasControl ==
    (CanEdit /\ Truthy(attributes.showTitle)) =>
        /\ \A f \in SchemaFields \ {"padding"} : \A v \in LegalValues[f] :
               ENABLED (Next /\ attributes'[f] = Some(v))
        /\ \A s \in Sides : \A v \in {PaddingMin, 40, PaddingMax} :
               ENABLED (Next /\ attributes'.padding[1][s] = Some(v))

\* C10: for an attribute set whose padding is complete (or left to the
\* default), both render paths give the container the padding
\* "<top>rem <right>rem <bottom>rem <left>rem", background color =
\* backgroundColor and align-items = alignment; padding all 1, alignment left
\* and background #fff give "1rem 1rem 1rem 1rem", left, #fff.
C10_ContainerStyle ==
    (request.padding = Undef \/ Complete(request.padding[1])) =>
        LET padding  == Resolved(request, "padding", [s \in Sides |-> Some(20)])
            expected == [padding         |-> Some(PaddingText(padding)),
                         alignItems      |-> Some(Resolved(request, "alignment", "center")),
                         backgroundColor |-> Some(Resolved(request, "backgroundColor", "#ffffff"))]
            example  == /\ padding = [s \in Sides |-> Some(10)]
                        /\ request.alignment = Some("left")
                        /\ request.backgroundColor = Some("#fff")
            shown    == [padding         |-> Some("1rem 1rem 1rem 1rem"),
                         alignItems      |-> Some("left"),
                         backgroundColor |-> Some("#fff")]
        IN  /\ preview[1].container = expected
            /\ markup # Undef => markup[1].container = expected
            /\ example => preview[1].container = shown
            /\ (example /\ markup # Undef) => markup[1].container = shown

\* both paths have rendered four different sides
C10_Witness ==
    /\ markup # Undef
    /\ markup[1].container.padding = Some("-5rem 1rem 2rem 3rem")
    /\ preview[1].container.padding = Some("-5rem 1rem 2rem 3rem")
    /\ markup[1].container.alignItems = Some("left")

\* every field but f is as it was
Frame(f) == \A g \in SchemaFields \ {f} : attributes'[g] = attributes[g]

\* C11: each update operation leaves every field but the one it targets (for
\* a padding update: every field but padding, and every side but the one it
\* targets) as it was, and a rendering changes no field; so hiding the title
\* leaves title, titleTextColor and titleFontSize as they were.
C11_UpdateFrame ==
    [][/\ ToggleShowTitle => Frame("showTitle")
       /\ SetTitleFontSize => Frame("titleFontSize")
       /\ SetContentFontSize => Frame("contentFontSize")
       /\ (SelectContentTextColor \/ PickContentColor) => Frame("contentTextColor")
       /\ PickBackgroundColor => Frame("backgroundColor")
       /\ PickTitleColor => Frame("titleTextColor")
       /\ EditTitle => Frame("title")
       /\ EditContent => Frame("content")
       /\ \A side \in Sides : \A value \in PaddingReports :
              SetPaddingSide(side, value) =>
                  /\ Frame("padding")
                  /\ \A s \in Sides \ {side} :
                         attributes'.padding[1][s] = attributes.padding[1][s]
       /\ RenderStatic => (attributes' = attributes /\ request' = request)
       /\ attributes' = attributes => preview' = preview]_vars

\* the title was edited and recoloured, then hidden: the preview has no title
\* element and the attribute set still holds the edited text and colour
C11_Witness ==
    /\ edits = 3
    /\ attributes.showTitle = Some(FALSE)
    /\ preview[1].title = Undef
    /\ attributes.title = Some("Hi")
    /\ attributes.titleTextColor = Some("#ff0000")
    /\ attributes.titleFontSize = Some(30)

\* C12: a padding control that reports no value sets its side to 0, not to
\* the schema default 2, and keeps the other three sides; every padding side
\* is a defined number in every state of an editing session.
C12_ClearedPaddingIsZero ==
    /\ [](\A s \in Sides : attributes.padding[1][s] # Undef
                           /\ attributes.padding[1][s][1] \in Int)
    /\ [][\A side \in Sides :
            SetPaddingSide(side, Undef) =>
                /\ attributes'.padding[1][side] = Some(0)
                /\ \A s \in Sides \ {side} :
                       attributes'.padding[1][s] = attributes.padding[1][s]]_vars

\* left was set to 4, then the bottom control was cleared
C12_Witness ==
    /\ edits = 2
    /\ attributes.padding[1] =
           [top |-> Some(20), bottom |-> Some(0), left |-> Some(40), right |-> Some(20)]

=============================================================================
